---- MODULE Spec2Model ----
(***************************************************************************)
(* A model of parts of noodles:                                            *)
(*   - noodles-bgzf  Reader (read, seek, position, virtual_position) and   *)
(*     the block codec read_block, over a byte-level source;               *)
(*   - noodles-bam   bai::index::reference_sequence::Builder;              *)
(*   - noodles-cram  write_tag_ids_dictionary, container::slice::Builder   *)
(*     (add_record) and reader::Records (next).                            *)
(* Sequences are 1-based here; offsets into the source are 0-based as in   *)
(* the code, so byte k of the source is src[k + 1].                        *)
(***************************************************************************)
EXTENDS Integers, Sequences, FiniteSets, TLC

VARIABLES
    \* ---- noodles-bgzf Reader<R> (reader.rs:8-13) and its source ----
    payloads,   \* the decompressed payload of each block the source was built from
    cut,        \* the length of the source: the encoded blocks, or a prefix of them
    inner,      \* the offset of the underlying source R (its cursor)
    position,   \* Reader::position
    cdata,      \* Reader::cdata, the compressed payload scratch buffer
    block,      \* Reader::block: [position, data, pos]
    \* ---- what the caller observes of the last call ----
    lastOp,     \* "new" | "read" | "seek"
    lastArg,    \* read: the buffer length; seek: the virtual position asked for
    lastRes,    \* "None" | "Ok" | "Interrupted" | "Err" | "Panic"
    lastRet,    \* read: the number of bytes returned; seek: the position returned
    out,        \* the bytes the last read put in the caller's buffer
    lastCase,   \* what read_block met in the last call (see ReadBlock)
    \* ---- history ----
    valid,      \* every call so far succeeded, every seek went to a block start
    sought,     \* the position of a successful seek still followed by at most one 0-byte read
    delivered,  \* the bytes a retrying caller has received (ReadLoop)
    done,       \* the retrying caller has received Ok(0)
    \* ---- noodles-bam bai reference_sequence::Builder (builder.rs:18-25) ----
    bin_builders,           \* HashMap<u32, bin::Builder>: bin id -> chunks
    intervals,              \* Vec<VirtualPosition>, the linear index
    start_position,
    end_position,
    mapped_record_count,
    unmapped_record_count,
    added,      \* history: the (record, chunk) pairs passed to add_record
    result,     \* <<>> until build() is called, then <<the ReferenceSequence>>
    \* ---- noodles-cram write_tag_ids_dictionary (preservation_map.rs:82-107) ----
    tag_ids_dictionary,     \* the argument: a list of lists of keys
    writer,                 \* the bytes written to the writer, a Vec<u8>
    tagRes,                 \* "None" before the call, then its result
    \* ---- noodles-cram container::slice::Builder (slice/builder.rs:18-21) ----
    reference_sequence_id,  \* Builder::reference_sequence_id
    slice_records,          \* Builder::records
    sliceRes,               \* the result of the last add_record
    sliceCalls,             \* history: the records passed to add_record and the results
    \* ---- noodles-cram reader::Records (records.rs:13-19) and its reader ----
    stream,                 \* what read_data_container meets, item by item
    readerAt,               \* how many items of the stream the reader has consumed
    iter_records,           \* Records::records, what is left of the vec::IntoIter
    nextRet,                \* what the last next() returned
    yielded                 \* history: what the next() calls returned before None

readerVars == <<payloads, cut, inner, position, cdata, block>>
callVars == <<lastOp, lastArg, lastRes, lastRet, out, lastCase>>
histVars == <<valid, sought>>
loopVars == <<delivered, done>>
builderVars == <<bin_builders, intervals, start_position, end_position,
                 mapped_record_count, unmapped_record_count, added, result>>
tagVars == <<tag_ids_dictionary, writer, tagRes>>
sliceVars == <<reference_sequence_id, slice_records, sliceRes, sliceCalls>>
iterVars == <<stream, readerAt, iter_records, nextRet, yielded>>
cramVars == <<tagVars, sliceVars, iterVars>>
vars == <<readerVars, callVars, histVars, loopVars, builderVars, cramVars>>

----------------------------------------------------------------------------
(* Bounds of the model. *)
MaxBlocks == 2      \* blocks in a source
MaxPayload == 2     \* decompressed bytes in a block
MaxBuf == 2         \* length of the caller's buffer
MaxRecords == 2     \* add_record calls on one Builder

----------------------------------------------------------------------------
(* Helpers. *)
Min(a, b) == IF a <= b THEN a ELSE b

Max(a, b) == IF a >= b THEN a ELSE b

RECURSIVE Flatten(_)
Flatten(ss) == IF ss = <<>> THEN <<>> ELSE Head(ss) \o Flatten(Tail(ss))

\* A Vec<u8> of the reader's scratch buffer: [len, head], the bytes being
\* head followed by len - Len(head) zero bytes (a resize fills with zeros).
VecOf(bytes) == [len |-> Len(bytes), head |-> bytes]

\* Vec::resize(v, n, 0)
Resize(v, n) == [len |-> n, head |-> SubSeq(v.head, 1, Min(n, Len(v.head)))]

\* LittleEndian::read_u16
ReadU16(lo, hi) == lo + 256 * hi

----------------------------------------------------------------------------
(* VirtualPosition: a u64, the compressed offset in the upper 48 bits and   *)
(* the uncompressed offset in the low 16 bits.                             *)
UNCOMPRESSED_RANGE == 65536

Pack(c, u) == c * UNCOMPRESSED_RANGE + u

Compressed(v) == v \div UNCOMPRESSED_RANGE

Uncompressed(v) == v % UNCOMPRESSED_RANGE

----------------------------------------------------------------------------
(* The block framing: an 18-byte gzip header with the BGZF extra field     *)
(* (BSIZE at bytes 16..17), the raw-deflate payload, an 8-byte trailer.    *)
BGZF_HEADER_SIZE == 18

TRAILER_SIZE == 8

U16_MAX == 65535

\* A raw-deflate stream of one final stored block (BTYPE = 00): the header
\* byte, LEN and its one's complement NLEN, then the bytes themselves.
DeflateStored(data) ==
    <<1, Len(data) % 256, Len(data) \div 256,
      255 - (Len(data) % 256), 255 - (Len(data) \div 256)>> \o data

GzHeader(bsize) ==
    <<31, 139, 8, 4, 0, 0, 0, 0, 0, 255, 6, 0, 66, 67, 2, 0,
      bsize % 256, bsize \div 256>>

\* CRC32 is not computed by the reader (read_trailer only consumes it): the
\* four CRC bytes are zero here; ISIZE is the payload length.
GzTrailer(data) == <<0, 0, 0, 0, Len(data) % 256, Len(data) \div 256, 0, 0>>

BlockSize(data) == BGZF_HEADER_SIZE + Len(DeflateStored(data)) + TRAILER_SIZE

EncodeBlock(data) ==
    GzHeader(BlockSize(data) - 1) \o DeflateStored(data) \o GzTrailer(data)

EncodeBlocks(ps) == Flatten([j \in 1..Len(ps) |-> EncodeBlock(ps[j])])

\* The source offset at which block j (1-based) starts.
RECURSIVE BlockStart(_, _)
BlockStart(ps, j) ==
    IF j <= 1 THEN 0 ELSE BlockStart(ps, j - 1) + BlockSize(ps[j - 1])

----------------------------------------------------------------------------
(* The underlying source R: Read (+ Seek).                                 *)

\* Read::read_exact(n) at offset off. On success the bytes and the new
\* offset. On failure (fewer than n bytes left) the number of bytes consumed
\* is unspecified by Read::read_exact: the source is left where it was or at
\* its end.
ReadExact(s, off, n) ==
    IF off + n <= Len(s)
    THEN {[ok |-> TRUE, bytes |-> SubSeq(s, off + 1, off + n), inner |-> off + n]}
    ELSE {[ok |-> FALSE, bytes |-> <<>>, inner |-> o] : o \in {off, Max(off, Len(s))}}

\* How many bytes the source still holds at offset off.
Remaining(s, off) == Max(0, Len(s) - off)

----------------------------------------------------------------------------
(* inflate_data: flate2's DeflateDecoder read to its end. Stored blocks    *)
(* (BTYPE = 00) are decoded; BTYPE = 11 is reserved and an error. A Huffman *)
(* block (BTYPE = 01, 10) is outside what is modelled: kind "huffman".     *)
(* On an error the bytes decoded so far stay in the output buffer.         *)
RECURSIVE InflateFrom(_, _, _)
InflateFrom(cd, i, acc) ==
    IF i > Len(cd) THEN [kind |-> "err", data |-> acc]
    ELSE LET bfinal == cd[i] % 2
             btype == (cd[i] \div 2) % 4
         IN  IF btype = 3 THEN [kind |-> "err", data |-> acc]
             ELSE IF btype # 0 THEN [kind |-> "huffman", data |-> acc]
             ELSE IF i + 4 > Len(cd) THEN [kind |-> "err", data |-> acc]
             ELSE LET len == ReadU16(cd[i + 1], cd[i + 2])
                      nlen == ReadU16(cd[i + 3], cd[i + 4])
                      avail == Min(len, Len(cd) - (i + 4))
                      got == acc \o SubSeq(cd, i + 5, i + 4 + avail)
                  IN  IF len + nlen # U16_MAX THEN [kind |-> "err", data |-> acc]
                      ELSE IF avail < len THEN [kind |-> "err", data |-> got]
                      ELSE IF bfinal = 1 THEN [kind |-> "ok", data |-> got]
                      ELSE InflateFrom(cd, i + 5 + len, got)

InflateData(cd) == InflateFrom(cd, 1, <<>>)

----------------------------------------------------------------------------
(* The block codec (reader.rs:73-130). Each operator yields the set of     *)
(* outcomes the call can have: res is "Ok", "Err" or "Panic", inner the    *)
(* source offset it leaves, case what the call met.                        *)

\* read_block_size without the "+ 1" that turns BSIZE into the block size.
ReadBlockSizeNoPlusOne(s, off) ==
    UNION {
        IF ~h.ok
        THEN {[res |-> "Ok", size |-> 0, inner |-> h.inner]}
        ELSE {[res |-> "Ok", size |-> ReadU16(h.bytes[17], h.bytes[18]),
               inner |-> h.inner]}
        : h \in ReadExact(s, off, BGZF_HEADER_SIZE) }

\* read_block_size passing the header's read error on (read_exact(..)?).
ReadBlockSizeStrict(s, off) ==
    UNION {
        IF ~h.ok
        THEN {[res |-> "Err", size |-> 0, inner |-> h.inner]}
        ELSE {[res |-> "Ok", size |-> ReadU16(h.bytes[17], h.bytes[18]) + 1,
               inner |-> h.inner]}
        : h \in ReadExact(s, off, BGZF_HEADER_SIZE) }

\* read_block_size. A header that cannot be read in full yields Ok(0),
\* whether no byte or some bytes were left. BSIZE + 1 is a u16 addition: at
\* BSIZE = 65535 a build with overflow checks panics, one without wraps.
ReadBlockSize(s, off) ==
    UNION {
        IF ~h.ok
        THEN {[res |-> "Ok", size |-> 0, inner |-> h.inner]}
        ELSE LET bsize == ReadU16(h.bytes[17], h.bytes[18])
             IN  IF bsize + 1 > U16_MAX
                 THEN {[res |-> "Panic", size |-> 0, inner |-> h.inner],
                       [res |-> "Ok", size |-> (bsize + 1) % (U16_MAX + 1),
                        inner |-> h.inner]}
                 ELSE {[res |-> "Ok", size |-> bsize + 1, inner |-> h.inner]}
        : h \in ReadExact(s, off, BGZF_HEADER_SIZE) }

\* read_trailer
ReadTrailer(s, off) == ReadExact(s, off, TRAILER_SIZE)

\* What the header read of read_block finds at offset off.
HeaderCase(s, off) ==
    IF Remaining(s, off) = 0 THEN "eof"
    ELSE IF Remaining(s, off) < BGZF_HEADER_SIZE THEN "header"
    ELSE "block"

\* read_block, after the block size bs > 0 is known, the source at off.
\* block_size - BGZF_HEADER_SIZE - TRAILER_SIZE is a usize subtraction: below
\* 26 it panics with overflow checks and without them wraps to a length no
\* Vec can have (resize panics).
ReadBlockBody(s, off, bs, cd, blk) ==
    IF bs < BGZF_HEADER_SIZE + TRAILER_SIZE
    THEN {[res |-> "Panic", size |-> 0, inner |-> off, cdata |-> cd,
           block |-> blk, case |-> "underflow"]}
    ELSE LET cdata_len == bs - BGZF_HEADER_SIZE - TRAILER_SIZE
             resized == Resize(cd, cdata_len)
         IN UNION {
             IF ~p.ok
             THEN {[res |-> "Err", size |-> 0, inner |-> p.inner,
                    cdata |-> resized, block |-> blk, case |-> "payload"]}
             ELSE UNION {
                 IF ~t.ok
                 THEN {[res |-> "Err", size |-> 0, inner |-> t.inner,
                        cdata |-> VecOf(p.bytes), block |-> blk, case |-> "trailer"]}
                 ELSE LET inf == InflateData(p.bytes)
                      IN  IF inf.kind = "ok"
                          THEN {[res |-> "Ok", size |-> bs, inner |-> t.inner,
                                 cdata |-> VecOf(p.bytes),
                                 block |-> [blk EXCEPT !.data = inf.data, !.pos = 0],
                                 case |-> "block"]}
                          ELSE {[res |-> "Err", size |-> 0, inner |-> t.inner,
                                 cdata |-> VecOf(p.bytes),
                                 block |-> [blk EXCEPT !.data = inf.data],
                                 case |-> IF inf.kind = "err" THEN "inflate"
                                          ELSE "huffman"]}
                 : t \in ReadTrailer(s, p.inner) }
             : p \in ReadExact(s, off, cdata_len) }

\* read_block
ReadBlock(s, off, cd, blk) ==
    UNION {
        IF h.res = "Panic"
        THEN {[res |-> "Panic", size |-> 0, inner |-> h.inner, cdata |-> cd,
               block |-> blk, case |-> "overflow"]}
        ELSE IF h.res = "Err"
        THEN {[res |-> "Err", size |-> 0, inner |-> h.inner, cdata |-> cd,
               block |-> blk, case |-> HeaderCase(s, off)]}
        ELSE IF h.size = 0
        THEN {[res |-> "Ok", size |-> 0, inner |-> h.inner, cdata |-> cd,
               block |-> blk,
               case |-> IF HeaderCase(s, off) = "block" THEN "overflow"
                        ELSE HeaderCase(s, off)]}
        ELSE ReadBlockBody(s, h.inner, h.size, cd, blk)
        : h \in ReadBlockSize(s, off) }

----------------------------------------------------------------------------
(* Block (its cursor is a std::io::Cursor over the decompressed bytes).    *)

\* Block::default()
DefaultBlock == [position |-> 0, data |-> <<>>, pos |-> 0]

\* Block::virtual_position
BlockVirtualPosition(blk) == Pack(blk.position, blk.pos)

\* Block::set_position
BlockSetPosition(blk, p) == [blk EXCEPT !.position = p]

\* Cursor::read into a buffer of n bytes: how many bytes it yields.
CursorAvail(blk, n) == Min(n, Len(blk.data) - Min(blk.pos, Len(blk.data)))

\* Cursor::seek(SeekFrom::Start(u)): any offset, also one past the data.
CursorSeek(blk, u) == [blk EXCEPT !.pos = u]

\* Reader::virtual_position
VirtualPosition == BlockVirtualPosition(block)

\* The loaded block has no byte left to deliver.
Exhausted == block.pos >= Len(block.data)

----------------------------------------------------------------------------
(* The sources of the model: blocks of distinct bytes, cut short or not.   *)
PayloadOf(j, n) == [i \in 1..n |-> 100 + 10 * j + i]

\* Up to MaxBlocks blocks, each empty or of MaxPayload bytes.
PayloadLists ==
    UNION {{[j \in 1..b |-> PayloadOf(j, f[j])] : f \in [1..b -> {0, MaxPayload}]}
           : b \in 0..MaxBlocks}

\* Where a source is cut: not at all, inside the last block's header (after
\* 1 and after 17 bytes), inside its payload, before and inside its trailer.
Cuts(ps) ==
    LET full == Len(EncodeBlocks(ps))
        s == BlockStart(ps, Len(ps))
    IN  IF ps = <<>> THEN {0}
        ELSE {full, s + 1, s + BGZF_HEADER_SIZE - 1, s + BGZF_HEADER_SIZE + 2,
              full - TRAILER_SIZE, full - 1}

\* The bytes of the underlying source R.
src == SubSeq(EncodeBlocks(payloads), 1, cut)

WellFormed == cut = Len(EncodeBlocks(payloads))

\* A whole block of the source starts at offset c: its index, or 0.
BlockAt(c) ==
    LET js == {j \in 1..Len(payloads) :
                  /\ BlockStart(payloads, j) = c
                  /\ c + BlockSize(payloads[j]) <= cut}
    IN  IF js = {} THEN 0 ELSE CHOOSE j \in js : TRUE

ValidPosition(p) ==
    /\ BlockAt(Compressed(p)) # 0
    /\ Uncompressed(p) <= Len(payloads[BlockAt(Compressed(p))])

\* The offsets the model seeks to: every block start; inside the last
\* block, the offsets 1, 3 and 5 bytes in (where the bytes taken for BSIZE
\* declare a block longer than the source, shorter than a header and a
\* trailer, and, in an empty block, 65535); one byte before the end of the
\* source, its end, and one byte past it.
SeekOffsets ==
    {c \in {BlockStart(payloads, j) : j \in 1..Len(payloads)}
           \cup {BlockStart(payloads, Len(payloads)) + d : d \in {1, 3, 5}}
           \cup {cut - 1, cut, cut + 1} : c >= 0}

\* The uncompressed offsets: inside a block of MaxPayload bytes or at its
\* end, which is past the end of an empty block.
SeekPositions == {Pack(c, u) : c \in SeekOffsets, u \in 0..MaxPayload}

----------------------------------------------------------------------------
(* bai::index::reference_sequence::Builder (builder.rs).                   *)
WINDOW_SIZE == 16384

MAX_INTERVAL_COUNT == 131072

\* bgzf::VirtualPosition::max() is u64::MAX, beyond the integers TLC holds:
\* the largest of them stands for it, above every position of the model.
VirtualPositionMax == 2147483647

\* bgzf::VirtualPosition::default()
VirtualPositionDefault == 0

\* i32 division truncates toward zero.
TruncDiv(a, b) == IF a >= 0 THEN a \div b ELSE -((-a) \div b)

\* The linear index, a Vec of MAX_INTERVAL_COUNT positions, kept as its
\* length and the slots that differ from VirtualPosition::default().
DefaultIntervals == [len |-> MAX_INTERVAL_COUNT, slots |-> <<>>]

IntervalAt(iv, i) ==
    IF i \in DOMAIN iv.slots THEN iv.slots[i] ELSE VirtualPositionDefault

\* intervals[i] = v for every i of lo..hi (all below the length)
SetIntervals(iv, lo, hi, v) ==
    LET dom == IF v = VirtualPositionDefault
               THEN DOMAIN iv.slots \ (lo..hi)
               ELSE DOMAIN iv.slots \cup (lo..hi)
    IN  [iv EXCEPT !.slots = [i \in dom |-> IF i \in lo..hi THEN v ELSE iv.slots[i]]]

\* The records and chunks passed to add_record. A record is what the
\* builder reads of it: position() (1-based), cigar().reference_len(),
\* flags().is_unmapped() and bin(). The first two are those of test_build;
\* then a record across windows 0 and 1, one filling window 1, and placed
\* unmapped records with no reference length, at the start of window 1 and
\* at position 1.
RecordInputs ==
    { [position |-> 1, reference_len |-> 0, unmapped |-> TRUE, bin |-> 4681],
      [position |-> 2, reference_len |-> 4, unmapped |-> FALSE, bin |-> 4681],
      [position |-> 6, reference_len |-> 2, unmapped |-> TRUE, bin |-> 4681],
      [position |-> 16384, reference_len |-> 2, unmapped |-> FALSE, bin |-> 585],
      [position |-> 16385, reference_len |-> 16384, unmapped |-> FALSE, bin |-> 4682],
      [position |-> 16385, reference_len |-> 0, unmapped |-> TRUE, bin |-> 4682] }

ChunkInputs ==
    { [start |-> 55, end |-> 89], [start |-> 89, end |-> 144],
      [start |-> 144, end |-> 233] }

\* add_chunk that keeps every chunk as passed.
BinAddChunkAppend(chunks, chunk) == Append(chunks, chunk)

\* bin::Builder::add_chunk: the chunks of a bin, in insertion order. A chunk
\* that starts where the last chunk of the bin ends extends that chunk:
\* test_build (builder.rs:163-170) adds (55,89) and (89,144) to bin 4681 and
\* expects the one chunk (55,144).
BinAddChunk(chunks, chunk) ==
    IF chunks # <<>> /\ chunks[Len(chunks)].end = chunk.start
    THEN [chunks EXCEPT ![Len(chunks)] =
             [start |-> chunks[Len(chunks)].start, end |-> chunk.end]]
    ELSE Append(chunks, chunk)

\* bin::Builder::build
BinBuild(id, chunks) == [id |-> id, chunks |-> chunks]

\* update_bins that starts a fresh bin builder on every call.
UpdateBinsFresh(bb, record, chunk) ==
    [id \in DOMAIN bb \cup {record.bin} |->
        IF id = record.bin THEN <<chunk>> ELSE bb[id]]

\* Builder::update_bins
UpdateBins(bb, record, chunk) ==
    LET bin_id == record.bin
        builder == IF bin_id \in DOMAIN bb THEN bb[bin_id] ELSE <<>>
    IN  [id \in DOMAIN bb \cup {bin_id} |->
            IF id = bin_id THEN BinAddChunk(builder, chunk) ELSE bb[id]]

\* update_linear_index that keeps the least position written to a slot.
UpdateLinearIndexMin(iv, record, chunk) ==
    LET lo == TruncDiv(record.position - 1, WINDOW_SIZE)
        hi == TruncDiv(record.position + record.reference_len - 2, WINDOW_SIZE)
        dom == DOMAIN iv.slots \cup (lo..hi)
    IN  [iv EXCEPT !.slots =
            [i \in dom |->
                IF i \in lo..hi
                THEN (IF i \in DOMAIN iv.slots THEN Min(iv.slots[i], chunk.start)
                      ELSE chunk.start)
                ELSE iv.slots[i]]]

\* Builder::update_linear_index
UpdateLinearIndex(iv, record, chunk) ==
    LET start == record.position
        end == start + record.reference_len - 1
        linear_index_start_offset == TruncDiv(start - 1, WINDOW_SIZE)
        linear_index_end_offset == TruncDiv(end - 1, WINDOW_SIZE)
    IN  SetIntervals(iv, linear_index_start_offset, linear_index_end_offset,
                     chunk.start)

\* ReferenceSequence::default()
DefaultReferenceSequence ==
    [bins |-> <<>>, intervals |-> DefaultIntervals, metadata |-> <<>>]

\* The orders in which a HashMap's into_iter may yield the keys ks.
Orders(ks) ==
    {o \in [1..Cardinality(ks) -> ks] : \A i, j \in DOMAIN o : i # j => o[i] # o[j]}

BuilderDefault ==
    /\ bin_builders = <<>>
    /\ intervals = DefaultIntervals
    /\ start_position = VirtualPositionMax
    /\ end_position = VirtualPositionDefault
    /\ mapped_record_count = 0
    /\ unmapped_record_count = 0
    /\ added = <<>>
    /\ result = <<>>

\* add_record whose metadata keeps the span of the last chunk only.
AddRecordLastChunk(record, chunk) ==
    /\ result = <<>>
    /\ Len(added) < MaxRecords
    /\ bin_builders' = UpdateBins(bin_builders, record, chunk)
    /\ intervals' = UpdateLinearIndex(intervals, record, chunk)
    /\ IF record.unmapped
       THEN /\ unmapped_record_count' = unmapped_record_count + 1
            /\ mapped_record_count' = mapped_record_count
       ELSE /\ mapped_record_count' = mapped_record_count + 1
            /\ unmapped_record_count' = unmapped_record_count
    /\ start_position' = chunk.start
    /\ end_position' = chunk.end
    /\ added' = Append(added, [record |-> record, chunk |-> chunk])
    /\ UNCHANGED result

\* Builder::add_record (builder.rs:28-32), with update_metadata (80-89).
AddRecord(record, chunk) ==
    /\ result = <<>>
    /\ Len(added) < MaxRecords
    /\ bin_builders' = UpdateBins(bin_builders, record, chunk)
    /\ intervals' = UpdateLinearIndex(intervals, record, chunk)
    /\ IF record.unmapped
       THEN /\ unmapped_record_count' = unmapped_record_count + 1
            /\ mapped_record_count' = mapped_record_count
       ELSE /\ mapped_record_count' = mapped_record_count + 1
            /\ unmapped_record_count' = unmapped_record_count
    /\ start_position' = Min(start_position, chunk.start)
    /\ end_position' = Max(end_position, chunk.end)
    /\ added' = Append(added, [record |-> record, chunk |-> chunk])
    /\ UNCHANGED result

\* build without the is_empty test: bins and Some(metadata) in every case.
BuildNoEmptyCheck ==
    /\ result = <<>>
    /\ \E o \in Orders(DOMAIN bin_builders) :
         result' = << [bins |-> [i \in DOMAIN o |-> BinBuild(o[i], bin_builders[o[i]])],
                       intervals |-> intervals,
                       metadata |-> << [start_position |-> start_position,
                                        end_position |-> end_position,
                                        mapped_record_count |-> mapped_record_count,
                                        unmapped_record_count |-> unmapped_record_count] >>] >>
    /\ UNCHANGED <<bin_builders, intervals, start_position, end_position,
                   mapped_record_count, unmapped_record_count, added>>

\* Builder::build (builder.rs:34-53), which consumes the builder.
Build ==
    /\ result = <<>>
    /\ IF DOMAIN bin_builders = {}
       THEN result' = <<DefaultReferenceSequence>>
       ELSE \E o \in Orders(DOMAIN bin_builders) :
              result' = << [bins |-> [i \in DOMAIN o |-> BinBuild(o[i], bin_builders[o[i]])],
                            intervals |-> intervals,
                            metadata |-> << [start_position |-> start_position,
                                             end_position |-> end_position,
                                             mapped_record_count |-> mapped_record_count,
                                             unmapped_record_count |-> unmapped_record_count] >>] >>
    /\ UNCHANGED <<bin_builders, intervals, start_position, end_position,
                   mapped_record_count, unmapped_record_count, added>>

----------------------------------------------------------------------------
(* noodles-cram: the states before anything is written, added or read.     *)

\* No dictionary written: an empty writer.
TagIdle ==
    /\ tag_ids_dictionary = <<>>
    /\ writer = <<>>
    /\ tagRes = "None"

\* slice::Builder::new(reference_sequence_id) (slice/builder.rs:29-34)
SliceBuilderNew(id) ==
    /\ reference_sequence_id = id
    /\ slice_records = <<>>
    /\ sliceRes = "None"
    /\ sliceCalls = <<>>

\* Records::new(reader) (records.rs:25-30) over a reader at the start of s.
RecordsNew(s) ==
    /\ stream = s
    /\ readerAt = 0
    /\ iter_records = <<>>
    /\ nextRet = [kind |-> "New", record |-> <<>>]
    /\ yielded = <<>>

CramIdle ==
    /\ TagIdle
    /\ SliceBuilderNew([kind |-> "None", id |-> 0])
    /\ RecordsNew(<<>>)

----------------------------------------------------------------------------
\* Reader::new (reader.rs:16-23)
ReaderNew ==
    /\ inner = 0
    /\ position = 0
    /\ cdata = VecOf(<<>>)
    /\ block = DefaultBlock
    /\ lastOp = "new"
    /\ lastArg = 0
    /\ lastRes = "None"
    /\ lastRet = 0
    /\ out = <<>>
    /\ lastCase = "none"
    /\ valid = TRUE
    /\ sought = -1
    /\ delivered = <<>>
    /\ done = FALSE

Init ==
    /\ payloads \in PayloadLists
    /\ cut \in Cuts(payloads)
    /\ ReaderNew
    /\ BuilderDefault
    /\ CramIdle

\* Reader::read(buf) with buf.len() = n (reader.rs:56-70).
Read(n) ==
    /\ lastRes # "Panic"
    /\ lastOp' = "read"
    /\ lastArg' = n
    /\ sought' = IF n = 0 /\ lastOp = "seek" THEN sought ELSE -1
    /\ UNCHANGED <<payloads, cut>>
    /\ IF CursorAvail(block, n) > 0
       THEN /\ out' = SubSeq(block.data, block.pos + 1, block.pos + CursorAvail(block, n))
            /\ block' = [block EXCEPT !.pos = block.pos + CursorAvail(block, n)]
            /\ lastRes' = "Ok"
            /\ lastRet' = CursorAvail(block, n)
            /\ lastCase' = "none"
            /\ valid' = valid
            /\ UNCHANGED <<inner, position, cdata>>
       ELSE \E o \in ReadBlock(src, inner, cdata, block) :
            /\ out' = <<>>
            /\ inner' = o.inner
            /\ cdata' = o.cdata
            /\ lastCase' = o.case
            /\ lastRet' = 0
            /\ IF o.res = "Ok" /\ o.size = 0
               THEN /\ lastRes' = "Ok"
                    /\ block' = o.block
                    /\ position' = position
               ELSE IF o.res = "Ok"
               THEN /\ lastRes' = "Interrupted"
                    /\ block' = BlockSetPosition(o.block, position)
                    /\ position' = position + o.size
               ELSE /\ lastRes' = o.res
                    /\ block' = o.block
                    /\ position' = position
            /\ valid' = (valid /\ o.res = "Ok")

\* Reader::seek(pos) (reader.rs:35-49).
Seek(p) ==
    /\ lastRes # "Panic"
    /\ lastOp' = "seek"
    /\ lastArg' = p
    /\ out' = <<>>
    /\ UNCHANGED <<payloads, cut>>
    /\ position' = Compressed(p)
    /\ \E o \in ReadBlock(src, Compressed(p), cdata, block) :
         /\ inner' = o.inner
         /\ cdata' = o.cdata
         /\ lastCase' = o.case
         /\ lastRes' = o.res
         /\ IF o.res = "Ok"
            THEN /\ block' = CursorSeek(o.block, Uncompressed(p))
                 /\ lastRet' = p
            ELSE /\ block' = o.block
                 /\ lastRet' = -1
         /\ valid' = (valid /\ o.res = "Ok" /\ ValidPosition(p))
         /\ sought' = IF o.res = "Ok" /\ ValidPosition(p) THEN p ELSE -1

ReadCall ==
    /\ \E n \in 0..MaxBuf : Read(n)
    /\ UNCHANGED <<loopVars, builderVars, cramVars>>

SeekCall ==
    /\ \E p \in SeekPositions : Seek(p)
    /\ UNCHANGED <<loopVars, builderVars, cramVars>>

Next == ReadCall \/ SeekCall

Spec == Init /\ [][Next]_vars

\* A caller that calls read with a non-empty buffer, retries on Interrupted
\* and stops at Ok(0) or at an error.
ReadLoop ==
    /\ ~done
    /\ lastRes \notin {"Err", "Panic"}
    /\ \E n \in 1..MaxBuf : Read(n)
    /\ delivered' = delivered \o out'
    /\ done' = (lastRes' = "Ok" /\ lastRet' = 0)
    /\ UNCHANGED <<builderVars, cramVars>>

LoopNext == ReadLoop

SpecRead == Init /\ [][LoopNext]_vars /\ WF_vars(ReadLoop)

\* One Builder, fed records and then built.
InitBuilder ==
    /\ payloads = <<>>
    /\ cut = 0
    /\ ReaderNew
    /\ BuilderDefault
    /\ CramIdle

AddRecordCall ==
    /\ \E record \in RecordInputs, chunk \in ChunkInputs : AddRecord(record, chunk)
    /\ UNCHANGED <<readerVars, callVars, histVars, loopVars, cramVars>>

BuildCall ==
    /\ Build
    /\ UNCHANGED <<readerVars, callVars, histVars, loopVars, cramVars>>

NextBuilder == AddRecordCall \/ BuildCall

SpecBuilder == InitBuilder /\ [][NextBuilder]_vars

----------------------------------------------------------------------------
(* Properties of the Reader.                                               *)

\* A whole block of the source starts where the source stands.
BlockFollows == BlockAt(inner) # 0

\* The source offset at which the loaded block starts: after successful
\* calls on a well-formed source the source stands just past the block last
\* decoded, and at 0 before any block is.
LoadedBlockStart == IF inner = 0 THEN 0 ELSE inner - BlockSize(block.data)

\* C1: a read with a non-empty buffer that finds the loaded block exhausted
\* while another block follows delivers no bytes and returns Interrupted;
\* virtual_position() is then (the offset at which the new block starts, 0),
\* and the next read delivers the first bytes of the new block.
C1_ReaderBoundary ==
    [][ /\ ( /\ valid /\ WellFormed
             /\ lastOp' = "read" /\ lastArg' > 0
             /\ Exhausted /\ BlockFollows )
           => ( /\ lastRes' = "Interrupted"
                /\ out' = <<>>
                /\ VirtualPosition' = Pack(inner, 0) )
        /\ ( /\ valid /\ WellFormed
             /\ lastOp = "read" /\ lastArg > 0 /\ lastRes = "Interrupted"
             /\ lastOp' = "read" /\ lastArg' > 0 )
           => out' = SubSeq(block.data, 1, Min(lastArg', Len(block.data)))
      ]_vars

\* C2: over a source of well-formed blocks a caller that retries on
\* Interrupted receives, in order, the bytes of the blocks' payloads and no
\* others, and then Ok(0).
C2_CompleteDelivery ==
    /\ [](WellFormed =>
            /\ Len(delivered) <= Len(Flatten(payloads))
            /\ delivered = SubSeq(Flatten(payloads), 1, Len(delivered))
            /\ (done => delivered = Flatten(payloads)))
    /\ <>(WellFormed => done)

C2_Witness ==
    /\ WellFormed
    /\ done
    /\ Len(payloads) = MaxBlocks
    /\ payloads[1] = <<>>
    /\ payloads[MaxBlocks] # <<>>
    /\ delivered = Flatten(payloads)

\* C3: a successful seek to a position p inside a whole block returns p and
\* leaves virtual_position() = p, also after one read of 0 bytes.
C3_SeekPostcondition ==
    sought # -1 =>
        /\ VirtualPosition = sought
        /\ (lastOp = "seek" => lastRet = sought)

\* C4: after successful reads and seeks virtual_position() is (the offset at
\* which the loaded block starts, the cursor inside its payload).
C4_VirtualPositionTracks ==
    (valid /\ WellFormed) => VirtualPosition = Pack(LoadedBlockStart, block.pos)

\* C5: after successful reads and seeks position() is the offset of the
\* underlying source, just past the last block decoded.
C5_PositionIsSourceOffset ==
    (valid /\ WellFormed) => position = inner

\* C6: a read that finds the source ending inside a block's header, payload
\* or trailer returns an I/O error; it returns Ok(0) from read_block only
\* when no byte is left at the block boundary.
C6_TruncatedIsError ==
    lastOp = "read" =>
        /\ (lastCase \in {"header", "payload", "trailer"} => lastRes = "Err")
        /\ (lastCase # "none" /\ lastRes = "Ok" => lastCase = "eof")

\* C7: a seek to an offset at which no whole block of the source starts does
\* not succeed.
C7_SeekInvalidFails ==
    (lastOp = "seek" /\ BlockAt(Compressed(lastArg)) = 0) => lastRes # "Ok"

\* C8: a read that finds the loaded block exhausted and no byte left in the
\* source returns Ok(0) and changes neither position() nor
\* virtual_position(); the block stays exhausted and the source empty, so
\* every later read up to a seek does the same.
C8_CleanEndOfStream ==
    [][ (lastOp' = "read" /\ Exhausted /\ Remaining(src, inner) = 0)
        => ( /\ lastRes' = "Ok"
             /\ lastRet' = 0
             /\ out' = <<>>
             /\ position' = position
             /\ VirtualPosition' = VirtualPosition
             /\ Exhausted'
             /\ Remaining(src, inner') = 0 )
      ]_vars

C8_Witness ==
    /\ WellFormed
    /\ Len(payloads) = MaxBlocks
    /\ lastOp = "read"
    /\ lastArg > 0
    /\ lastRes = "Ok"
    /\ lastRet = 0
    /\ lastCase = "eof"
    /\ position = cut

----------------------------------------------------------------------------
(* Properties of the index Builder.                                        *)

\* The reference span of record r overlaps window i.
Overlaps(r, i) ==
    /\ r.reference_len > 0
    /\ r.position <= (i + 1) * WINDOW_SIZE
    /\ r.position + r.reference_len - 1 >= i * WINDOW_SIZE + 1

\* The windows the records of the model reach.
ModelWindows == 0..2

AscendingOrder(a) ==
    \A i, j \in DOMAIN a :
        i < j => /\ a[i].record.position <= a[j].record.position
                 /\ a[i].chunk.start <= a[j].chunk.start

\* C9: for records added in ascending order with non-decreasing chunk
\* starts, every slot some added record overlaps holds the least chunk
\* start among the records overlapping its window.
C9_LinearIndexEarliest ==
    AscendingOrder(added) =>
        \A i \in ModelWindows :
            LET over == {k \in DOMAIN added : Overlaps(added[k].record, i)}
            IN  over # {} =>
                    /\ \E k \in over : IntervalAt(intervals, i) = added[k].chunk.start
                    /\ \A k \in over : IntervalAt(intervals, i) <= added[k].chunk.start

\* C10: build() returns the empty ReferenceSequence (no bins, no metadata)
\* exactly when add_record was never called; otherwise bins, the linear
\* index of MAX_INTERVAL_COUNT slots and Some(metadata).
C10_BuilderEmptiness ==
    result # <<>> =>
        /\ (result[1] = DefaultReferenceSequence <=> added = <<>>)
        /\ (added = <<>> => result[1].bins = <<>> /\ result[1].metadata = <<>>)
        /\ (added # <<>> =>
              /\ result[1].bins # <<>>
              /\ result[1].intervals = intervals
              /\ result[1].intervals.len = MAX_INTERVAL_COUNT
              /\ Len(result[1].metadata) = 1)

C10_Witness ==
    /\ result # <<>>
    /\ Len(added) = MaxRecords
    /\ Len(result[1].bins) > 1
    /\ result[1].intervals # DefaultIntervals

\* Builder::update_metadata on the four metadata fields m.
UpdateMetadata(m, record, chunk) ==
    [start_position |-> Min(m.start_position, chunk.start),
     end_position |-> Max(m.end_position, chunk.end),
     mapped_record_count |->
         IF record.unmapped THEN m.mapped_record_count
         ELSE m.mapped_record_count + 1,
     unmapped_record_count |->
         IF record.unmapped THEN m.unmapped_record_count + 1
         ELSE m.unmapped_record_count]

\* The metadata fields of Builder::default()
DefaultMetadata ==
    [start_position |-> VirtualPositionMax,
     end_position |-> VirtualPositionDefault,
     mapped_record_count |-> 0,
     unmapped_record_count |-> 0]

\* The metadata after add_record on the calls a[p[1]], a[p[2]], ...
RECURSIVE MetadataAfter(_, _, _)
MetadataAfter(a, p, n) ==
    IF n = 0 THEN DefaultMetadata
    ELSE UpdateMetadata(MetadataAfter(a, p, n - 1), a[p[n]].record, a[p[n]].chunk)

\* The metadata fields of the builder
BuilderMetadata ==
    [start_position |-> start_position,
     end_position |-> end_position,
     mapped_record_count |-> mapped_record_count,
     unmapped_record_count |-> unmapped_record_count]

\* What the metadata of the calls a summarises: the least chunk start, the
\* greatest chunk end, and the records without and with the unmapped flag.
MetadataSummary(a) ==
    [start_position |->
         CHOOSE s \in {a[k].chunk.start : k \in DOMAIN a} :
             \A k \in DOMAIN a : s <= a[k].chunk.start,
     end_position |->
         CHOOSE e \in {a[k].chunk.end : k \in DOMAIN a} :
             \A k \in DOMAIN a : e >= a[k].chunk.end,
     mapped_record_count |-> Cardinality({k \in DOMAIN a : ~a[k].record.unmapped}),
     unmapped_record_count |-> Cardinality({k \in DOMAIN a : a[k].record.unmapped})]

\* C11: after any non-empty sequence of add_record calls, taken in any
\* order, the metadata (the builder's, and the one build() returns) has the
\* least chunk start, the greatest chunk end, the number of records without
\* the unmapped flag and the number of records with it.
C11_MetadataOrderIndependent ==
    added # <<>> =>
        /\ BuilderMetadata = MetadataSummary(added)
        /\ \A p \in Orders(DOMAIN added) :
               MetadataAfter(added, p, Len(added)) = MetadataSummary(added)
        /\ (result # <<>> => result[1].metadata = <<MetadataSummary(added)>>)

C11_Witness ==
    /\ result # <<>>
    /\ Len(added) = MaxRecords
    /\ added[1].chunk.start > added[Len(added)].chunk.start
    /\ added[1].record.unmapped
    /\ ~added[Len(added)].record.unmapped
    /\ result[1].metadata[1].start_position = added[Len(added)].chunk.start
    /\ result[1].metadata[1].end_position = added[1].chunk.end

\* The chunks passed with the records of bin b, in call order.
RECURSIVE ChunksOfBin(_, _)
ChunksOfBin(a, b) ==
    IF a = <<>> THEN <<>>
    ELSE LET rest == ChunksOfBin(SubSeq(a, 1, Len(a) - 1), b)
             last == a[Len(a)]
         IN  IF last.record.bin = b THEN Append(rest, last.chunk) ELSE rest

\* The bin ids of the model's records, and one no record has.
ModelBins == {r.bin : r \in RecordInputs} \cup {0}

\* The bins of the built ReferenceSequence with id b.
BinsWithId(b) == {i \in DOMAIN result[1].bins : result[1].bins[i].id = b}

\* The chunks cs with every run of chunks, each starting where the one
\* before it ends, replaced by one chunk from the start of the run's first
\* chunk to the end of its last.
RunHeads(cs) == {k \in DOMAIN cs : k = 1 \/ cs[k].start # cs[k - 1].end}

RunEnd(cs, k) ==
    CHOOSE j \in k..Len(cs) :
        /\ \A i \in (k + 1)..j : i \notin RunHeads(cs)
        /\ (j = Len(cs) \/ j + 1 \in RunHeads(cs))

RECURSIVE RunsFrom(_, _)
RunsFrom(cs, k) ==
    IF k > Len(cs) THEN <<>>
    ELSE <<[start |-> cs[k].start, end |-> cs[RunEnd(cs, k)].end]>>
         \o RunsFrom(cs, RunEnd(cs, k) + 1)

FrameSlots == ModelWindows \cup {3, MAX_INTERVAL_COUNT - 1}

\* C15: add_record for a record at 1-based position start with reference
\* length len sets every slot from (start - 1) / WINDOW_SIZE to
\* (start + len - 2) / WINDOW_SIZE inclusive (i32 division, as the code
\* computes it) to chunk.start() whatever the slot held, and leaves every
\* other slot and the length of the array, MAX_INTERVAL_COUNT, unchanged.
C15_LinearIndexFrame ==
    [][ \A record \in RecordInputs, chunk \in ChunkInputs :
            (added' = Append(added, [record |-> record, chunk |-> chunk]))
            => LET lo == TruncDiv(record.position - 1, WINDOW_SIZE)
                   hi == TruncDiv(record.position + record.reference_len - 2,
                                  WINDOW_SIZE)
               IN  /\ intervals'.len = MAX_INTERVAL_COUNT
                   /\ intervals.len = MAX_INTERVAL_COUNT
                   /\ DOMAIN intervals'.slots \subseteq FrameSlots
                   /\ \A i \in FrameSlots :
                          IntervalAt(intervals', i) =
                              IF lo <= i /\ i <= hi THEN chunk.start
                              ELSE IntervalAt(intervals, i)
      ]_vars

\* A slot written by the first call is overwritten with a lower position by
\* the second, which leaves slot 0 as the first call set it.
C15_Witness ==
    /\ Len(added) = 2
    /\ added[1].record.position = WINDOW_SIZE
    /\ added[2].record.position = WINDOW_SIZE + 1
    /\ added[2].record.reference_len = WINDOW_SIZE
    /\ added[1].chunk.start > added[2].chunk.start
    /\ IntervalAt(intervals, 0) = added[1].chunk.start
    /\ IntervalAt(intervals, 1) = added[2].chunk.start
    /\ IntervalAt(intervals, 2) = VirtualPositionDefault

----------------------------------------------------------------------------
(* Further properties of the Reader.                                       *)

\* C16: a read or seek that returns an I/O error leaves position() and
\* virtual_position() as they were before the call.
C16_FailuresAreLocal ==
    [][ (lastRes' = "Err")
        => ( /\ position' = position
             /\ VirtualPosition' = VirtualPosition )
      ]_vars

\* C17: a read issued while the loaded block has undelivered bytes, with a
\* buffer of any length, 0 included, decodes no block: it drops none of
\* those bytes and does not advance position(); with an empty buffer it
\* returns Ok(0) and leaves the reader as it was.
C17_ReloadOnlyOnExhaustion ==
    [][ (lastOp' = "read" /\ ~Exhausted)
        => ( /\ lastCase' = "none"
             /\ position' = position
             /\ inner' = inner
             /\ block'.data = block.data
             /\ block'.pos = block.pos + Len(out')
             /\ out' = SubSeq(block.data, block.pos + 1, block.pos + Len(out'))
             /\ (lastArg' = 0 =>
                    /\ lastRes' = "Ok"
                    /\ lastRet' = 0
                    /\ block' = block
                    /\ cdata' = cdata) )
      ]_vars

\* The source offset at which the call just made read a block header.
HeaderOffset == IF lastOp' = "seek" THEN Compressed(lastArg') ELSE inner

\* BSIZE of the header at source offset off
BSizeAt(off) == ReadU16(src[off + 17], src[off + 18])

\* C18: whatever BSIZE in 0..65535 a header that can be read in full
\* declares, read_block_size yields BSIZE + 1, never 0 (the end-of-stream
\* result) and without overflow, and read_block reads BSIZE + 1 - header -
\* trailer payload bytes and, when it succeeds, returns BSIZE + 1, having
\* consumed that many bytes of the source.
C18_DeclaredBlockSize ==
    [][ (lastCase' # "none" /\ HeaderOffset + BGZF_HEADER_SIZE <= cut)
        => ( /\ lastRes' # "Panic"
             /\ lastCase' \notin {"eof", "header", "overflow", "underflow"}
             /\ cdata'.len = BSizeAt(HeaderOffset) + 1 - BGZF_HEADER_SIZE - TRAILER_SIZE
             /\ (lastRes' \in {"Ok", "Interrupted"} =>
                    inner' = HeaderOffset + BSizeAt(HeaderOffset) + 1)
             /\ (lastRes' = "Interrupted" =>
                    position' = position + BSizeAt(HeaderOffset) + 1) )
      ]_vars

----------------------------------------------------------------------------
(* noodles-cram: write_tag_ids_dictionary (preservation_map.rs:82-107).    *)
MaxLists == 2       \* key lists in a dictionary
MaxKeys == 2        \* keys in a list
LongLists == 13     \* key lists in the long dictionary

NUL == 0

\* The sequences over S of length at most n.
SeqsUpTo(S, n) == UNION {[1..k -> S] : k \in 0..n}

\* `n as u8`
AsU8(n) == n % 256

\* `n >> k`
Shr(n, k) == n \div (2 ^ k)

\* Key::id: the two tag bytes and the type code, as one integer.
KeyId(l, r, ty) == l * 65536 + r * 256 + ty

\* The keys of the model: NH:c and CO:Z of the test, and X0:C.
KeyInputs == {KeyId(78, 72, 99), KeyId(67, 79, 90), KeyId(88, 48, 67)}

\* num::write_itf8: 1 to 5 bytes, the count of leading one bits of the first
\* byte telling how many bytes follow; values here are lengths, not negative.
WriteItf8(n) ==
    IF n < 128 THEN <<n>>
    ELSE IF n < 16384 THEN <<128 + Shr(n, 8), AsU8(n)>>
    ELSE IF n < 2097152 THEN <<192 + Shr(n, 16), AsU8(Shr(n, 8)), AsU8(n)>>
    ELSE IF n < 268435456
    THEN <<224 + Shr(n, 24), AsU8(Shr(n, 16)), AsU8(Shr(n, 8)), AsU8(n)>>
    ELSE <<240 + Shr(n, 28), AsU8(Shr(n, 20)), AsU8(Shr(n, 12)), AsU8(Shr(n, 4)),
           n % 16>>

\* The dictionaries written: every list of at most MaxLists lists of at most
\* MaxKeys keys, and one long enough for a two-byte length prefix.
LongDictionary ==
    [i \in 1..LongLists |->
        <<KeyId(78, 72, 99), KeyId(67, 79, 90), KeyId(88, 48, 67)>>]

Dictionaries ==
    SeqsUpTo(SeqsUpTo(KeyInputs, MaxKeys), MaxLists) \cup {LongDictionary}

\* The three bytes pushed for each key of a list, then NUL.
KeysBytes(keys) ==
    Flatten([k \in DOMAIN keys |->
                <<AsU8(Shr(keys[k], 16)), AsU8(Shr(keys[k], 8)), AsU8(keys[k])>>])
    \o <<NUL>>

\* write_tag_ids_dictionary without the NUL that ends each list.
WriteTagIdsDictionaryNoNul ==
    /\ tagRes = "None"
    /\ LET buf == Flatten([i \in DOMAIN tag_ids_dictionary |->
                      SubSeq(KeysBytes(tag_ids_dictionary[i]), 1,
                             3 * Len(tag_ids_dictionary[i]))])
       IN  writer' = writer \o WriteItf8(Len(buf)) \o buf
    /\ tagRes' = "Ok"
    /\ UNCHANGED tag_ids_dictionary

\* write_tag_ids_dictionary(writer, tag_ids_dictionary), the writer a Vec<u8>.
WriteTagIdsDictionary ==
    /\ tagRes = "None"
    /\ LET buf == Flatten([i \in DOMAIN tag_ids_dictionary |->
                      KeysBytes(tag_ids_dictionary[i])])
           data_len == Len(buf)
       IN  writer' = writer \o WriteItf8(data_len) \o buf
    /\ tagRes' = "Ok"
    /\ UNCHANGED tag_ids_dictionary

InitTagIds ==
    /\ payloads = <<>>
    /\ cut = 0
    /\ ReaderNew
    /\ BuilderDefault
    /\ tag_ids_dictionary \in Dictionaries
    /\ writer = <<>>
    /\ tagRes = "None"
    /\ SliceBuilderNew([kind |-> "None", id |-> 0])
    /\ RecordsNew(<<>>)

WriteTagIdsDictionaryCall ==
    /\ WriteTagIdsDictionary
    /\ UNCHANGED <<readerVars, callVars, histVars, loopVars, builderVars,
                   sliceVars, iterVars>>

NextTagIds == WriteTagIdsDictionaryCall

SpecTagIds == InitTagIds /\ [][NextTagIds]_vars

\* Reading an ITF8 integer back from the head of bytes: its value and the
\* number of bytes it takes (one- to three-byte forms).
ReadItf8(bytes) ==
    IF bytes[1] < 128 THEN [value |-> bytes[1], len |-> 1]
    ELSE IF bytes[1] < 192
    THEN [value |-> (bytes[1] - 128) * 256 + bytes[2], len |-> 2]
    ELSE [value |-> (bytes[1] - 192) * 65536 + bytes[2] * 256 + bytes[3], len |-> 3]

\* The number of bytes the lists before list i take.
RECURSIVE ListOffset(_, _)
ListOffset(d, i) ==
    IF i <= 1 THEN 0 ELSE ListOffset(d, i - 1) + 3 * Len(d[i - 1]) + 1

\* C14: write_tag_ids_dictionary emits a length prefix and then, for each
\* key list in order, the three low bytes of each key's id, most significant
\* first, in key order, and one NUL byte; the prefix is the number of bytes
\* that follow it, the sum over the lists of 3 * (number of keys) + 1.
C14_TagIdsDictionaryEncoding ==
    (tagRes = "Ok") =>
        LET d == tag_ids_dictionary
            prefix == ReadItf8(writer)
            data == SubSeq(writer, prefix.len + 1, Len(writer))
        IN  /\ prefix.value = Len(data)
            /\ prefix.value = ListOffset(d, Len(d) + 1)
            /\ \A i \in DOMAIN d :
                   /\ \A k \in DOMAIN d[i] :
                          LET at == ListOffset(d, i) + 3 * (k - 1)
                          IN  data[at + 1] * 65536 + data[at + 2] * 256 + data[at + 3]
                                  = d[i][k] % 16777216
                   /\ data[ListOffset(d, i) + 3 * Len(d[i]) + 1] = NUL

\* The dictionary of test_write_tag_ids_dictionary and the bytes it expects.
C14_Witness ==
    /\ tagRes = "Ok"
    /\ tag_ids_dictionary = << <<KeyId(78, 72, 99)>>,
                               <<KeyId(78, 72, 99), KeyId(67, 79, 90)>> >>
    /\ writer = <<11, 78, 72, 99, 0, 78, 72, 99, 67, 79, 90, 0>>

----------------------------------------------------------------------------
(* noodles-cram: container::slice::Builder (slice/builder.rs).             *)
MaxAdds == 2        \* add_record calls on one slice Builder

\* container::ReferenceSequenceId: None, Some(id) or Many, as [kind, id]
\* (id is 0 where the variant has none).
SliceIds ==
    {[kind |-> "None", id |-> 0], [kind |-> "Some", id |-> 0],
     [kind |-> "Some", id |-> 1], [kind |-> "Many", id |-> 0]}

\* The records passed to add_record: what tells two records apart, and the
\* raw reference_id field, negative for a record with no reference sequence.
SliceRecordInputs ==
    {[name |-> n, reference_id |-> r] : n \in {1, 2}, r \in {-1, 0, 1}}

\* bam::record::ReferenceSequenceId::from(record.reference_id), as <<>> for
\* None and <<id>> for Some(id).
RecordReferenceSequenceId(record) ==
    IF record.reference_id < 0 THEN <<>> ELSE <<record.reference_id>>

\* add_record that admits every record.
SliceAddRecordAny(record) ==
    /\ sliceRes # "Panic"
    /\ Len(sliceCalls) < MaxAdds
    /\ slice_records' = Append(slice_records, record)
    /\ sliceRes' = "Ok"
    /\ sliceCalls' = Append(sliceCalls, [record |-> record, res |-> "Ok",
                                         ret |-> <<record>>])
    /\ UNCHANGED reference_sequence_id

\* slice::Builder::add_record(record) (slice/builder.rs:36-63). Ok carries a
\* reference to the last record of the list; Many is todo!(), a panic.
SliceAddRecord(record) ==
    /\ sliceRes # "Panic"
    /\ Len(sliceCalls) < MaxAdds
    /\ LET record_reference_sequence_id == RecordReferenceSequenceId(record)
           push ==
               /\ slice_records' = Append(slice_records, record)
               /\ sliceRes' = "Ok"
               /\ sliceCalls' = Append(sliceCalls,
                      [record |-> record, res |-> "Ok",
                       ret |-> <<slice_records'[Len(slice_records')]>>])
           fail(r) ==
               /\ slice_records' = slice_records
               /\ sliceRes' = r
               /\ sliceCalls' = Append(sliceCalls,
                      [record |-> record, res |-> r, ret |-> <<>>])
       IN  IF reference_sequence_id.kind = "None"
           THEN (IF record_reference_sequence_id # <<>>
                 THEN fail("ReferenceSequenceIdMismatch")
                 ELSE push)
           ELSE IF reference_sequence_id.kind = "Some"
           THEN (IF record_reference_sequence_id # <<>>
                 THEN (IF reference_sequence_id.id = record_reference_sequence_id[1]
                       THEN push
                       ELSE fail("ReferenceSequenceIdMismatch"))
                 ELSE fail("ReferenceSequenceIdMismatch"))
           ELSE fail("Panic")
    /\ UNCHANGED reference_sequence_id

InitSlice ==
    /\ payloads = <<>>
    /\ cut = 0
    /\ ReaderNew
    /\ BuilderDefault
    /\ TagIdle
    /\ \E id \in SliceIds : SliceBuilderNew(id)
    /\ RecordsNew(<<>>)

SliceAddRecordCall ==
    /\ \E record \in SliceRecordInputs : SliceAddRecord(record)
    /\ UNCHANGED <<readerVars, callVars, histVars, loopVars, builderVars,
                   tagVars, iterVars>>

NextSlice == SliceAddRecordCall

SpecSlice == InitSlice /\ [][NextSlice]_vars

\* The record's reference sequence id equals the builder's: both none, or
\* both the same reference sequence.
SameReferenceSequence(record) ==
    \/ reference_sequence_id.kind = "None" /\ record.reference_id < 0
    \/ /\ reference_sequence_id.kind = "Some"
       /\ record.reference_id >= 0
       /\ record.reference_id = reference_sequence_id.id

\* The records of the calls whose reference sequence id is the builder's,
\* in call order.
RECURSIVE Admitted(_)
Admitted(calls) ==
    IF calls = <<>> THEN <<>>
    ELSE LET rest == Admitted(SubSeq(calls, 1, Len(calls) - 1))
             last == calls[Len(calls)]
         IN  IF SameReferenceSequence(last.record) THEN Append(rest, last.record)
             ELSE rest

\* C19: on a Builder created with None or Some(s), add_record(r) returns Ok
\* with r, appended as the last record, exactly when r's reference sequence
\* id equals the builder's, and ReferenceSequenceIdMismatch with the list
\* unchanged otherwise: after any calls the list is the admitted records in
\* call order.
C19_SliceBuilderAdmission ==
    (reference_sequence_id.kind \in {"None", "Some"}) =>
        /\ slice_records = Admitted(sliceCalls)
        /\ \A k \in DOMAIN sliceCalls :
               IF SameReferenceSequence(sliceCalls[k].record)
               THEN /\ sliceCalls[k].res = "Ok"
                    /\ sliceCalls[k].ret = <<sliceCalls[k].record>>
               ELSE sliceCalls[k].res = "ReferenceSequenceIdMismatch"
        /\ (sliceCalls # <<>> /\ sliceRes = "Ok" =>
               slice_records[Len(slice_records)] = sliceCalls[Len(sliceCalls)].record)

C19_Witness ==
    /\ reference_sequence_id = [kind |-> "Some", id |-> 1]
    /\ Len(sliceCalls) = MaxAdds
    /\ sliceCalls[1].res = "ReferenceSequenceIdMismatch"
    /\ sliceCalls[1].record.reference_id = 0
    /\ sliceCalls[Len(sliceCalls)].res = "Ok"
    /\ slice_records = <<sliceCalls[Len(sliceCalls)].record>>

----------------------------------------------------------------------------
(* noodles-cram: reader::Records (reader/records.rs).                      *)
MaxContainers == 2  \* data containers in a stream

\* What read_data_container meets in the stream: a data container, given as
\* its slices (how many records each decodes to, or that its decoding
\* fails), or something it fails to read. In turn: a container without
\* slices, one whose only slice is empty, one of two slices, one whose
\* second slice fails to decode, and a failing read.
StreamItems ==
    { [read |-> "ok", slices |-> <<>>],
      [read |-> "ok", slices |-> <<[n |-> 0, ok |-> TRUE]>>],
      [read |-> "ok", slices |-> <<[n |-> 2, ok |-> TRUE], [n |-> 1, ok |-> TRUE]>>],
      [read |-> "ok", slices |-> <<[n |-> 1, ok |-> TRUE], [n |-> 1, ok |-> FALSE]>>],
      [read |-> "err", slices |-> <<>>] }

Streams == SeqsUpTo(StreamItems, MaxContainers)

\* The calls of next() made on one iterator are capped: a failing read that
\* leaves the reader in place fails again on every call.
YieldCap == 3 * MaxContainers + 2

\* slice.records(compression_header).map(|r| slice.resolve_mates(r)) for
\* slice s of container i: the records, each named by where it lies.
SliceRecords(i, s) == [r \in 1..stream[i].slices[s].n |-> <<i, s, r>>]

\* The records of container i, slice after slice (flatten).
ContainerRecords(i) ==
    Flatten([s \in DOMAIN stream[i].slices |-> SliceRecords(i, s)])

\* Every slice of container i decodes (collect::<Result<Vec<_>, _>>()).
Decodes(i) == \A s \in DOMAIN stream[i].slices : stream[i].slices[s].ok

\* next() that returns None at a container without records.
RECURSIVE NextOutcomes(_)
NextOutcomesStopAtEmpty(at) ==
    IF at = Len(stream)
    THEN {[kind |-> "None", record |-> <<>>, at |-> at, records |-> <<>>]}
    ELSE IF stream[at + 1].read = "err"
    THEN {[kind |-> "Err", record |-> <<>>, at |-> a, records |-> <<>>]
             : a \in {at, at + 1}}
    ELSE IF ~Decodes(at + 1)
    THEN {[kind |-> "Err", record |-> <<>>, at |-> at + 1, records |-> <<>>]}
    ELSE IF ContainerRecords(at + 1) = <<>>
    THEN {[kind |-> "None", record |-> <<>>, at |-> at + 1, records |-> <<>>]}
    ELSE {[kind |-> "Some", record |-> Head(ContainerRecords(at + 1)), at |-> at + 1,
           records |-> Tail(ContainerRecords(at + 1))]}

\* The loop of next() once self.records is exhausted, the reader having
\* consumed `at` items: read_container_records (records.rs:32-53) until a
\* container yields a record, the stream ends or a read or decoding fails.
\* A failed read_data_container leaves the reader where it was or past the
\* item; a failed decoding leaves self.records as it was, exhausted.
NextOutcomes(at) ==
    IF at = Len(stream)
    THEN {[kind |-> "None", record |-> <<>>, at |-> at, records |-> <<>>]}
    ELSE IF stream[at + 1].read = "err"
    THEN {[kind |-> "Err", record |-> <<>>, at |-> a, records |-> <<>>]
             : a \in {at, at + 1}}
    ELSE IF ~Decodes(at + 1)
    THEN {[kind |-> "Err", record |-> <<>>, at |-> at + 1, records |-> <<>>]}
    ELSE IF ContainerRecords(at + 1) = <<>>
    THEN NextOutcomes(at + 1)
    ELSE {[kind |-> "Some", record |-> Head(ContainerRecords(at + 1)), at |-> at + 1,
           records |-> Tail(ContainerRecords(at + 1))]}

\* Records::next (records.rs:62-73)
RecordsNext ==
    /\ Len(yielded) < YieldCap
    /\ IF iter_records # <<>>
       THEN /\ nextRet' = [kind |-> "Some", record |-> Head(iter_records)]
            /\ iter_records' = Tail(iter_records)
            /\ readerAt' = readerAt
       ELSE \E o \in NextOutcomes(readerAt) :
            /\ nextRet' = [kind |-> o.kind, record |-> o.record]
            /\ iter_records' = o.records
            /\ readerAt' = o.at
    /\ yielded' = IF nextRet'.kind = "None" THEN yielded
                  ELSE Append(yielded, nextRet')
    /\ UNCHANGED stream

InitRecords ==
    /\ payloads = <<>>
    /\ cut = 0
    /\ ReaderNew
    /\ BuilderDefault
    /\ TagIdle
    /\ SliceBuilderNew([kind |-> "None", id |-> 0])
    /\ \E s \in Streams : RecordsNew(s)

RecordsNextCall ==
    /\ RecordsNext
    /\ UNCHANGED <<readerVars, callVars, histVars, loopVars, builderVars,
                   tagVars, sliceVars>>

NextRecords == RecordsNextCall

SpecRecords == InitRecords /\ [][NextRecords]_vars

\* The records of the first k items of the stream that are containers read
\* and decoded without failure, in container, slice and record order.
RECURSIVE ExpectedRecords(_)
ExpectedRecords(k) ==
    IF k = 0 THEN <<>>
    ELSE ExpectedRecords(k - 1)
         \o (IF stream[k].read = "ok" /\ Decodes(k) THEN ContainerRecords(k) ELSE <<>>)

\* The items of the first k that fail to be read or decoded.
FailingItems(k) == {i \in 1..k : ~(stream[i].read = "ok" /\ Decodes(i))}

IsSome(y) == y.kind = "Some"

IsErr(y) == y.kind = "Err"

\* The records yielded so far as Some(Ok(record)), in the order yielded.
YieldedRecords ==
    [k \in DOMAIN SelectSeq(yielded, IsSome) |-> SelectSeq(yielded, IsSome)[k].record]

\* C20: the calls of next() yield every record of every container read so
\* far exactly once, in container, then slice, then record order; a
\* container without records does not end the iteration: None is returned
\* only with the stream at its end and every record yielded; and every
\* failure to read or decode a container has been yielded as Some(Err).
C20_RecordIteration ==
    /\ YieldedRecords \o iter_records = ExpectedRecords(readerAt)
    /\ (nextRet.kind = "None" =>
           /\ readerAt = Len(stream)
           /\ YieldedRecords = ExpectedRecords(Len(stream)))
    /\ Len(SelectSeq(yielded, IsErr)) >= Cardinality(FailingItems(readerAt))
    /\ (FailingItems(Len(stream)) = {} => SelectSeq(yielded, IsErr) = <<>>)

\* An iteration over a container without records, then one with two slices,
\* ended by None.
C20_Witness ==
    /\ Len(stream) = 2
    /\ stream[1].read = "ok"
    /\ ContainerRecords(1) = <<>>
    /\ FailingItems(Len(stream)) = {}
    /\ nextRet.kind = "None"
    /\ YieldedRecords = << <<2, 1, 1>>, <<2, 1, 2>>, <<2, 2, 1>> >>

====
